---------------------------- MODULE Spec2Model ----------------------------
(***************************************************************************)
(* Model of the lottie-animation blocks: the keyframe-cycle expander       *)
(* (expandTmCycles), the expression stripper of the v8 block               *)
(* (stripRemainingExpressions) and the handler that prepares a fetched     *)
(* animation document and hands it to lottie.loadAnimation.                *)
(*                                                                         *)
(* A JavaScript value that may be absent is a record with a tag, so that   *)
(* every value of one kind has the same shape:                             *)
(*   number-or-undefined : [has, n]                                        *)
(*   tm.x                : [type, s, n], type in undefined/string/number;  *)
(*                         a string is its sequence of tokens              *)
(*   an array-or-not     : [isArray, items]                                *)
(*   an entry that may be null : a record with field null                  *)
(***************************************************************************)
EXTENDS Integers, Sequences, FiniteSets, TLC

VARIABLES fetched, results, variant, pc, data, lottie, status, trace,
          heap, seen, stack, calls, descents,
          ctr, scriptEls, scriptState, delayed

\* the document, the calls made on it and the handler that prepares it
loadVars == <<fetched, results, variant, pc, data, lottie, status, trace>>

\* the object graph stripRemainingExpressions walks, and its walk
stripVars == <<heap, seen, stack, calls, descents>>

\* the page: containers, script elements, timers
pageVars == <<ctr, scriptEls, scriptState, delayed>>

vars == <<loadVars, stripVars, pageVars>>

\* no document is being prepared
LoadOff ==
  /\ fetched = <<>>
  /\ results = <<>>
  /\ variant = "none"
  /\ pc = "off"
  /\ data = <<>>
  /\ lottie = FALSE
  /\ status = "none"
  /\ trace = <<>>

\* no object graph is being walked
StripOff ==
  /\ heap = <<>>
  /\ seen = {}
  /\ stack = <<>>
  /\ calls = 0
  /\ descents = <<>>

\* no page
PageOff ==
  /\ ctr = <<>>
  /\ scriptEls = <<>>
  /\ scriptState = <<>>
  /\ delayed = "off"

-----------------------------------------------------------------------------
(* Bounds of the model *)

\* longest tm.k drawn as an input
MaxKf == 3
\* longest top-level layers array of a composite document
MaxLayers == 2
\* longest assets array of a composite document
MaxAssets == 2
\* how many times the harness applies expandTmCycles to one document
MaxPasses == 2
\* objects of an object graph handed to stripRemainingExpressions
MaxObj == 3
\* references of such a graph beyond the chain that links its objects
MaxExtra == 1
\* lottie containers on one page
MaxContainers == 2
\* writes to nested fields of expanded keyframes after the expansion
MaxWrites == 2
\* intersecting entries one IntersectionObserver callback reports
MaxEntries == 2

-----------------------------------------------------------------------------
(* JavaScript values *)

Undef == [has |-> FALSE, n |-> 0]

Num(n) == [has |-> TRUE, n |-> n]

XUndefined == [type |-> "undefined", s |-> <<>>, n |-> 0]

XString(s) == [type |-> "string", s |-> s, n |-> 0]

XNumber(n) == [type |-> "number", s |-> <<>>, n |-> n]

NotArray == [isArray |-> FALSE, items |-> <<>>]

Arr(items) == [isArray |-> TRUE, items |-> items]

NullKf == [null |-> TRUE, t |-> 0, v |-> 0]

Kf(t, v) == [null |-> FALSE, t |-> t, v |-> v]

NoTm == [present |-> FALSE, x |-> XUndefined, k |-> NotArray]

Tm(x, k) == [present |-> TRUE, x |-> x, k |-> k]

NullLayer == [null |-> TRUE, ip |-> Undef, op |-> Undef, tm |-> NoTm]

Layer(ip, op, tm) == [null |-> FALSE, ip |-> ip, op |-> op, tm |-> tm]

NullAsset == [null |-> TRUE, layers |-> NotArray]

Asset(layers) == [null |-> FALSE, layers |-> layers]

Doc(layers, assets) == [layers |-> layers, assets |-> assets]

\* the expression strings of the inputs, as token sequences
XCycle == <<"loopOut", "(", "'cycle'", ")">>

XPingPong == <<"loopOut", "(", "'pingpong'", ")">>

XWiggle == <<"wiggle", "(", "2", ",", "5", ")">>

\* the substring expandTmCycles looks for
Marker == <<"loopOut">>

-----------------------------------------------------------------------------
(* JavaScript operators used by expandTmCycles *)

\* String.prototype.includes on token sequences
Includes(s, sub) ==
  \E i \in 0..(Len(s) - Len(sub)) :
    \A j \in 1..Len(sub) : s[i + j] = sub[j]

\* ToBoolean of a tm.x value
Truthy(x) ==
  \/ x.type = "string" /\ x.s # <<>>
  \/ x.type = "number" /\ x.n # 0

\* (v || d) for a number-or-undefined v
OrDefault(v, d) == IF v.has /\ v.n # 0 THEN v.n ELSE d

\* Math.ceil(a / b) for b # 0
MathCeil(a, b) == IF b > 0 THEN -((-a) \div b) ELSE -(a \div (-b))

\* JSON.stringify of a keyframe object: its own fields in order
JsonStringify(kf) == <<<<"t", kf.t>>, <<"v", kf.v>>>>

\* JSON.parse of that text: a fresh object with the fields read back
JsonParse(txt) ==
  [null |-> FALSE,
   t |-> (CHOOSE p \in {txt[i] : i \in 1..Len(txt)} : p[1] = "t")[2],
   v |-> (CHOOSE p \in {txt[i] : i \in 1..Len(txt)} : p[1] = "v")[2]]

-----------------------------------------------------------------------------
(* expandTmCycles *)

\* guard 1: !tm || !tm.x (the layer has no expression to look at)
noExpression(tm) == ~tm.present \/ ~Truthy(tm.x)

\* tm.x.includes is not a function: TypeError for a truthy tm.x that is no string
includesThrows(tm) == tm.x.type # "string"

hasMarkerAlways(tm) == TRUE

\* tm.x.includes('loopOut')
hasMarker(tm) == Includes(tm.x.s, Marker)

\* guard 2: !Array.isArray(kfs) || kfs.length < 2
tooShort(kfs) == ~kfs.isArray \/ Len(kfs.items) < 2

\* kfs[kfs.length - 1].t and kfs[0].t read a property of null: TypeError
endsThrow(kfs) == kfs.items[Len(kfs.items)].null \/ kfs.items[1].null

\* const cycleDur = kfs[kfs.length - 1].t - kfs[0].t
cycleDur(kfs) == kfs.items[Len(kfs.items)].t - kfs.items[1].t

degenerateOnlyZero(cd) == cd = 0

\* guard 3: cycleDur <= 0
degenerate(cd) == cd <= 0

\* const dur = (layer.op || 900) - (layer.ip || 0)
dur(layer) == OrDefault(layer.op, 900) - OrDefault(layer.ip, 0)

cyclesNoExtra(layer) == MathCeil(dur(layer), cycleDur(layer.tm.k))

\* const cycles = Math.ceil(dur / cycleDur) + 1
cycles(layer) == MathCeil(dur(layer), cycleDur(layer.tm.k)) + 1

offUnscaled(c, cd) == c

\* const off = c * cycleDur
off(c, cd) == c * cd

\* const copy = JSON.parse(JSON.stringify(kf)); copy.t = kf.t + off
copyKf(kf, o) == [JsonParse(JsonStringify(kf)) EXCEPT !.t = kf.t + o]

\* kfs.forEach((kf) => { ...; expanded.push(copy) }) for one value of c
onePass(items, o) == [i \in 1..Len(items) |-> copyKf(items[i], o)]

RECURSIVE forCycles(_, _, _, _, _)
\* for (let c = 0; c < cycles; c += 1) { ... }, from c on, with expanded = acc
forCycles(items, cd, cyc, c, acc) ==
  IF c < cyc
  THEN forCycles(items, cd, cyc, c + 1, acc \o onePass(items, off(c, cd)))
  ELSE acc

\* the two loops the other way round: every keyframe, then every cycle
expandedKeyframeMajor(items, cd, cyc) ==
  LET n == Len(items)
      total == IF cyc > 0 THEN cyc * n ELSE 0
  IN [j \in 1..total |->
        copyKf(items[((j - 1) \div cyc) + 1], off((j - 1) % cyc, cd))]

\* the array `expanded` when the loops are done
expanded(items, cd, cyc) == forCycles(items, cd, cyc, 0, <<>>)

\* a keyframe in the middle of tm.k is null: kf.t throws inside the loop
loopThrows(items, cyc) == cyc > 0 /\ \E i \in 1..Len(items) : items[i].null

replaceKeepX(layer, exp) == [layer EXCEPT !.tm.k = Arr(exp)]

\* tm.k = expanded; delete tm.x
replace(layer, exp) ==
  [layer EXCEPT !.tm.k = Arr(exp), !.tm.x = XUndefined]

Same(layer) == [layer |-> layer, threw |-> FALSE]

Throw(layer) == [layer |-> layer, threw |-> TRUE]

\* the body of layers.forEach((layer) => { ... }) for one layer
walkLayer(layer) ==
  IF layer.null THEN Throw(layer)
  ELSE IF noExpression(layer.tm) THEN Same(layer)
  ELSE IF includesThrows(layer.tm) THEN Throw(layer)
  ELSE IF ~hasMarker(layer.tm) THEN Same(layer)
  ELSE IF tooShort(layer.tm.k) THEN Same(layer)
  ELSE IF endsThrow(layer.tm.k) THEN Throw(layer)
  ELSE IF degenerate(cycleDur(layer.tm.k)) THEN Same(layer)
  ELSE IF loopThrows(layer.tm.k.items, cycles(layer)) THEN Throw(layer)
  ELSE Same(replace(layer,
              expanded(layer.tm.k.items, cycleDur(layer.tm.k), cycles(layer))))

RECURSIVE forEachLayerStopAtSkip(_, _)
forEachLayerStopAtSkip(items, i) ==
  IF i > Len(items) THEN [items |-> items, threw |-> FALSE]
  ELSE LET r == walkLayer(items[i])
       IN IF r.threw THEN [items |-> items, threw |-> TRUE]
          ELSE IF r.layer = items[i] THEN [items |-> items, threw |-> FALSE]
          ELSE forEachLayerStopAtSkip([items EXCEPT ![i] = r.layer], i + 1)

RECURSIVE forEachLayer(_, _)
\* layers.forEach from index i on; an exception ends the iteration
forEachLayer(items, i) ==
  IF i > Len(items) THEN [items |-> items, threw |-> FALSE]
  ELSE LET r == walkLayer(items[i])
       IN IF r.threw THEN [items |-> items, threw |-> TRUE]
          ELSE forEachLayer([items EXCEPT ![i] = r.layer], i + 1)

\* const walk = (layers) => { if (!Array.isArray(layers)) return; ... }
walk(layers) ==
  IF ~layers.isArray THEN [layers |-> layers, threw |-> FALSE]
  ELSE LET r == forEachLayer(layers.items, 1)
       IN [layers |-> Arr(r.items), threw |-> r.threw]

RECURSIVE forEachAsset(_, _)
\* data.assets.forEach((a) => walk(a.layers)) from index i on
forEachAsset(items, i) ==
  IF i > Len(items) THEN [items |-> items, threw |-> FALSE]
  ELSE IF items[i].null THEN [items |-> items, threw |-> TRUE]
  ELSE LET r == walk(items[i].layers)
           next == [items EXCEPT ![i].layers = r.layers]
       IN IF r.threw THEN [items |-> next, threw |-> TRUE]
          ELSE forEachAsset(next, i + 1)

\* only assets[0] is walked
walkAssetsFirstOnly(assets) ==
  IF ~assets.isArray \/ assets.items = <<>>
  THEN [assets |-> assets, threw |-> FALSE]
  ELSE LET r == forEachAsset(SubSeq(assets.items, 1, 1), 1)
       IN [assets |-> Arr(r.items \o SubSeq(assets.items, 2, Len(assets.items))),
           threw |-> r.threw]

\* if (Array.isArray(data.assets)) data.assets.forEach(...)
walkAssets(assets) ==
  IF ~assets.isArray THEN [assets |-> assets, threw |-> FALSE]
  ELSE LET r == forEachAsset(assets.items, 1)
       IN [assets |-> Arr(r.items), threw |-> r.threw]

\* function expandTmCycles(data): the document as it is left, and whether
\* the call ended in an exception
expandTmCycles(d) ==
  LET top == walk(d.layers)
  IN IF top.threw
     THEN [data |-> [d EXCEPT !.layers = top.layers], threw |-> TRUE]
     ELSE LET rest == walkAssets(d.assets)
          IN [data |-> [d EXCEPT !.layers = top.layers, !.assets = rest.assets],
              threw |-> rest.threw]

-----------------------------------------------------------------------------
(* The documents the model draws its inputs from *)

TVals == {0, 25, 50}

IpVals == {Undef, Num(0), Num(100), Num(1000)}

OpVals == {Undef, Num(0), Num(100), Num(200)}

XVals == {XUndefined, XString(<<>>), XString(XCycle), XString(XPingPong),
          XString(XWiggle)}

\* keyframes with the given times; v is 0 everywhere (p = 0) or 0, 1, 2, ...
MkKfs(ts, p) == [i \in 1..Len(ts) |-> Kf(ts[i], (i - 1) * p)]

KVals ==
  {NotArray} \cup
  {Arr(MkKfs(ts, p)) : ts \in UNION {[1..n -> TVals] : n \in 0..MaxKf},
                       p \in {0, 1}}

TmVals == {NoTm} \cup {Tm(x, k) : x \in XVals, k \in KVals}

LayerVals == {Layer(ip, op, tm) : ip \in IpVals, op \in OpVals, tm \in TmVals}

\* documents with one top-level layer and no assets
SingleLayerDocs == {Doc(Arr(<<l>>), NotArray) : l \in LayerVals}

LoopA ==
  Layer(Num(0), Num(100), Tm(XString(XCycle), Arr(<<Kf(0, 0), Kf(25, 1)>>)))

LoopB ==
  Layer(Num(0), Num(200),
        Tm(XString(XCycle), Arr(<<Kf(0, 0), Kf(25, 1), Kf(50, 0)>>)))

NoMarker ==
  Layer(Num(0), Num(100), Tm(XString(XWiggle), Arr(<<Kf(0, 0), Kf(25, 1)>>)))

Short == Layer(Undef, Undef, Tm(XString(XCycle), Arr(<<Kf(0, 0)>>)))

Flat ==
  Layer(Num(0), Num(100), Tm(XString(XCycle), Arr(<<Kf(25, 0), Kf(25, 1)>>)))

BadX == Layer(Num(0), Num(100), Tm(XNumber(5), Arr(<<Kf(0, 0), Kf(25, 1)>>)))

NullEnd ==
  Layer(Num(0), Num(100), Tm(XString(XCycle), Arr(<<Kf(0, 0), NullKf>>)))

NullMid ==
  Layer(Num(0), Num(100),
        Tm(XString(XCycle), Arr(<<Kf(0, 0), NullKf, Kf(25, 1)>>)))

\* layers of the shape the data model describes
SampleLayers == {LoopA, LoopB, NoMarker, Short, Flat}

\* entries outside the data model
OddLayers == {LoopA, NullLayer, BadX, NullEnd, NullMid}

SeqsUpTo(S, n) == UNION {[1..m -> S] : m \in 0..n}

\* documents with several layers, at top level and in assets
CompositeDocs ==
  {Doc(Arr(ls), as) :
     ls \in SeqsUpTo(SampleLayers, MaxLayers),
     as \in {NotArray} \cup
            {Arr(a) : a \in SeqsUpTo({Asset(NotArray)} \cup
                                     {Asset(Arr(<<l>>)) : l \in SampleLayers},
                                     MaxAssets)}}

\* documents whose shape is not the data model's
OddDocs ==
  {Doc(ls, as) :
     ls \in {NotArray} \cup {Arr(q) : q \in SeqsUpTo(OddLayers, 2)},
     as \in {NotArray} \cup
            {Arr(a) : a \in SeqsUpTo({NullAsset, Asset(Arr(<<LoopA>>))}, 2)}}

\* documents of the shape the data model describes
Docs == SingleLayerDocs \cup CompositeDocs

-----------------------------------------------------------------------------
(* Applying expandTmCycles to a document, once and again *)

\* the document the next call gets: the one the last call left
current == IF results = <<>> THEN fetched ELSE results[Len(results)].data

Init ==
  /\ fetched \in Docs
  /\ results = <<>>
  /\ variant = "none"
  /\ pc = "call"
  /\ data = fetched
  /\ lottie = FALSE
  /\ status = "none"
  /\ trace = <<>>
  /\ StripOff
  /\ PageOff

\* expandTmCycles(data), on the document as the previous call left it
ExpandTmCyclesCall ==
  /\ pc = "call"
  /\ Len(results) < MaxPasses
  /\ results' = Append(results, expandTmCycles(current))
  /\ data' = results'[Len(results')].data
  /\ UNCHANGED <<fetched, variant, pc, lottie, status, trace>>
  /\ UNCHANGED <<stripVars, pageVars>>

Next == ExpandTmCyclesCall

Spec == Init /\ [][Next]_vars

\* the same calls on documents whose shape is not the data model's
InitOdd ==
  /\ fetched \in OddDocs
  /\ results = <<>>
  /\ variant = "none"
  /\ pc = "call"
  /\ data = fetched
  /\ lottie = FALSE
  /\ status = "none"
  /\ trace = <<>>
  /\ StripOff
  /\ PageOff

SpecOdd == InitOdd /\ [][Next]_vars

-----------------------------------------------------------------------------
(* stripRemainingExpressions, on a decoded document (a tree: every object is
   reached once, so the `seen` branch is not taken) *)

\* if ('x' in obj && typeof obj.x === 'string') delete obj.x, for a tm object
stripTm(tm) == IF tm.x.type = "string" THEN [tm EXCEPT !.x = XUndefined] ELSE tm

\* a layer entry: null and primitives are left, an object is descended into
stripLayer(layer) ==
  IF layer.null \/ ~layer.tm.present THEN layer
  ELSE [layer EXCEPT !.tm = stripTm(layer.tm)]

\* obj.forEach((item) => stripRemainingExpressions(item, seen)) on a layers array
stripLayers(layers) ==
  IF ~layers.isArray THEN layers
  ELSE Arr([i \in 1..Len(layers.items) |-> stripLayer(layers.items[i])])

stripAsset(a) == IF a.null THEN a ELSE [a EXCEPT !.layers = stripLayers(a.layers)]

\* function stripRemainingExpressions(obj, seen) called on the document
stripRemainingExpressions(d) ==
  [layers |-> stripLayers(d.layers),
   assets |-> IF ~d.assets.isArray THEN d.assets
              ELSE Arr([i \in 1..Len(d.assets.items) |->
                          stripAsset(d.assets.items[i])])]

-----------------------------------------------------------------------------
(* loadLottieIntoContainer from the moment res.json() has resolved *)

\* "narrow": expandTmCycles only; "v8": expandTmCycles, then
\* stripRemainingExpressions
Variants == {"narrow", "v8"}

\* v8 reaches the fetch only after waitForLottie has seen window.lottie;
\* the narrow block fetches as soon as loadScript resolves
InitLoad ==
  /\ variant \in Variants
  /\ fetched \in Docs
  /\ lottie \in (IF variant = "v8" THEN {TRUE} ELSE BOOLEAN)
  /\ data = fetched
  /\ pc = "json"
  /\ status = "loading"
  /\ results = <<>>
  /\ trace = <<>>
  /\ StripOff
  /\ PageOff

\* strip before expand
stepsStripFirst(v) ==
  IF v = "v8" THEN <<"stripRemainingExpressions", "expandTmCycles">>
  ELSE <<"expandTmCycles">>

\* the calls the handler makes on animationData, in the order of its lines
steps(v) ==
  IF v = "v8" THEN <<"expandTmCycles", "stripRemainingExpressions">>
  ELSE <<"expandTmCycles">>

\* one of those calls
applyStep(step, d) ==
  IF step = "expandTmCycles" THEN expandTmCycles(d)
  ELSE [data |-> stripRemainingExpressions(d), threw |-> FALSE]

RECURSIVE runSteps(_, _, _)
\* the calls one after the other; a call that throws ends the handler
runSteps(ss, d, done) ==
  IF ss = <<>> THEN [data |-> d, threw |-> FALSE, trace |-> done]
  ELSE LET r == applyStep(Head(ss), d)
       IN IF r.threw
          THEN [data |-> r.data, threw |-> TRUE, trace |-> Append(done, Head(ss))]
          ELSE runSteps(Tail(ss), r.data, Append(done, Head(ss)))

\* what the handler's transform makes of animationData, whether it threw,
\* and the calls it made
transform(v, d) == runSteps(steps(v), d, <<>>)

\* .then((animationData) => { ... }) followed by .catch: the transform, the
\* check of window.lottie, and the first requestAnimationFrame
OnAnimationData ==
  /\ pc = "json"
  /\ LET r == transform(variant, data)
     IN /\ data' = r.data
        /\ trace' = trace \o r.trace
        /\ IF r.threw \/ ~lottie
           THEN pc' = "failed" /\ status' = "error"
           ELSE pc' = "raf1" /\ status' = status
  /\ UNCHANGED <<fetched, results, variant, lottie>>
  /\ UNCHANGED <<stripVars, pageVars>>

\* requestAnimationFrame(() => { requestAnimationFrame(runInit); })
OnFirstFrame ==
  /\ pc = "raf1"
  /\ pc' = "raf2"
  /\ UNCHANGED <<fetched, results, variant, data, lottie, status, trace>>
  /\ UNCHANGED <<stripVars, pageVars>>

\* runInit: lottie.loadAnimation({ ..., animationData, ... })
RunInit ==
  /\ pc = "raf2"
  /\ pc' = "handed"
  /\ status' = "loaded"
  /\ trace' = Append(trace, "loadAnimation")
  /\ UNCHANGED <<fetched, results, variant, data, lottie>>
  /\ UNCHANGED <<stripVars, pageVars>>

NextLoad == OnAnimationData \/ OnFirstFrame \/ RunInit

SpecLoad == InitLoad /\ [][NextLoad]_vars

-----------------------------------------------------------------------------
(* stripRemainingExpressions on an object graph, call by call.
   An object is [isArray, x, xref, kids]: x is "none" (no x), "string",
   "other" (an x that is a number or boolean) or "object" (an x that holds
   the object xref, as the x component of a split position does); kids are
   the values of its other fields, or the items of an array, in order: an
   object of the graph, or 0 for null or a primitive.  Object 1 is the
   document. *)

Objs == 1..MaxObj

XKinds == {"none", "string", "other", "object"}

\* the objects of the graph chained 1 -> 2 -> ... -> MaxObj
ChainKids(o) == IF o < MaxObj THEN <<o + 1>> ELSE <<>>

ExtraEdges == {e \in SUBSET (Objs \X (0..MaxObj)) : Cardinality(e) <= MaxExtra}

RECURSIVE SeqOfSet(_)
\* the members of a set of numbers in ascending order
SeqOfSet(S) ==
  IF S = {} THEN <<>>
  ELSE LET m == CHOOSE a \in S : \A b \in S : a <= b
       IN <<m>> \o SeqOfSet(S \ {m})

\* object graphs: any mix of arrays and objects with or without x, linked by
\* the chain and by up to MaxExtra further references (back to an ancestor,
\* to itself, forward to an object the chain also reaches, or to a primitive);
\* an object-valued x holds the next object of the chain
Heaps ==
  {[o \in Objs |->
      LET xo == ~ar[o] /\ xs[o] = "object" /\ o < MaxObj
      IN [isArray |-> ar[o],
          x |-> IF ar[o] \/ (xs[o] = "object" /\ o = MaxObj) THEN "none"
                ELSE xs[o],
          xref |-> IF xo THEN o + 1 ELSE 0,
          kids |-> SeqOfSet({e[2] : e \in {d \in ex : d[1] = o}})
                   \o (IF xo THEN <<>> ELSE ChainKids(o))]] :
     ar \in [Objs -> BOOLEAN], xs \in [Objs -> XKinds], ex \in ExtraEdges}

\* any x is deleted
deleteAnyX(h, obj) ==
  IF ~h[obj].isArray /\ h[obj].x # "none"
  THEN [h EXCEPT ![obj].x = "none", ![obj].xref = 0]
  ELSE h

\* if (!Array.isArray(obj) && 'x' in obj && typeof obj.x === 'string') delete obj.x
deleteStringX(h, obj) ==
  IF ~h[obj].isArray /\ h[obj].x = "string"
  THEN [h EXCEPT ![obj].x = "none"]
  ELSE h

\* Object.values(obj) once a string x is gone, or the items of an array
valuesOf(h, obj) ==
  (IF h[obj].x = "other" THEN <<0>>
   ELSE IF h[obj].x = "object" THEN <<h[obj].xref>>
   ELSE <<>>) \o h[obj].kids

Return(h, sn) == [heap |-> h, seen |-> sn, descended |-> FALSE, inner |-> <<>>]

Descend(h, sn, obj) ==
  [heap |-> h, seen |-> sn \cup {obj}, descended |-> TRUE,
   inner |-> valuesOf(h, obj)]

\* without the seen set
stripCallNoSeen(h, sn, obj) ==
  IF obj = 0 THEN Return(h, sn)
  ELSE Descend(deleteStringX(h, obj), sn, obj)

\* arrays are not walked
stripCallSkipArrays(h, sn, obj) ==
  IF obj = 0 THEN Return(h, sn)
  ELSE IF obj \in sn THEN Return(deleteStringX(h, obj), sn)
  ELSE IF h[obj].isArray THEN Return(h, sn \cup {obj})
  ELSE Descend(deleteStringX(h, obj), sn, obj)

\* one invocation of stripRemainingExpressions(obj, seen): the graph and
\* seen as it leaves them, and the invocations its forEach makes, in order
stripCall(h, sn, obj) ==
  IF obj = 0 THEN Return(h, sn)
  ELSE IF obj \in sn THEN Return(deleteStringX(h, obj), sn)
  ELSE IF h[obj].isArray THEN Descend(h, sn, obj)
  ELSE Descend(deleteStringX(h, obj), sn, obj)

\* stripRemainingExpressions(animationData) is about to be called
InitStrip ==
  /\ heap \in Heaps
  /\ fetched = heap
  /\ seen = {}
  /\ stack = <<1>>
  /\ calls = 0
  /\ descents = [o \in Objs |-> 0]
  /\ results = <<>>
  /\ variant = "v8"
  /\ pc = "strip"
  /\ data = <<>>
  /\ lottie = TRUE
  /\ status = "loading"
  /\ trace = <<>>
  /\ PageOff

\* the innermost pending invocation runs; the invocations it makes come
\* before those its callers have still to make
StripCall ==
  /\ pc = "strip"
  /\ stack # <<>>
  /\ LET obj == Head(stack)
         r == stripCall(heap, seen, obj)
     IN /\ heap' = r.heap
        /\ seen' = r.seen
        /\ stack' = r.inner \o Tail(stack)
        /\ descents' = IF r.descended
                       THEN [descents EXCEPT ![obj] = @ + 1]
                       ELSE descents
  /\ calls' = calls + 1
  /\ UNCHANGED <<loadVars, pageVars>>

NextStrip == StripCall

SpecStrip == InitStrip /\ [][NextStrip]_vars

-----------------------------------------------------------------------------
(* The page: containers made by decorate, the script element of lottie-web,
   the visibility observer and the fallback timer of each lazy container, the
   promise chain of each load.  All containers of a page come from the same
   block (variant); window.lottie is the variable lottie. *)

Containers == 1..MaxContainers

\* const LOTTIE_WEB_SCRIPT of each block
LOTTIE_WEB_SCRIPT(v) ==
  IF v = "v8" THEN "unpkg.com/lottie-web@5.12.2/build/player/lottie_light.min.js"
  ELSE "cdnjs.cloudflare.com/ajax/libs/lottie-web/5.12.2/lottie.min.js"

\* the src the loader at the end of the v8 file asks for
DELAYED_SCRIPT == "unpkg.com/lottie-web@5.12.2/build/player/lottie_light.min.js"

Srcs == {LOTTIE_WEB_SCRIPT(v) : v \in Variants}

\* a container as decorate leaves it: lazy (initLottieWhenVisible: closure
\* flag loaded, observer, timer armed) or immediate
Fresh(lazy) ==
  [lazy |-> lazy, lottieLoaded |-> FALSE, loaded |-> FALSE, status |-> "none",
   pc |-> "idle", timer |-> IF lazy THEN "armed" ELSE "none",
   inners |-> 0, msg |-> FALSE, runs |-> 0, anims |-> 0,
   cause |-> "none", starter |-> "none"]

\* the documents a fetch may deliver: one that the transform handles, one
\* on which it throws
PageDocs == {Doc(Arr(<<LoopA>>), NotArray), Doc(Arr(<<NullLayer>>), NotArray)}

Page == [ctr |-> ctr, scriptEls |-> scriptEls, scriptState |-> scriptState]

\* without the look for an existing element
loadScriptNoCheck(P, src) ==
  [page |-> [P EXCEPT !.scriptEls[src] = @ + 1, !.scriptState[src] = "loading"],
   existing |-> FALSE]

\* loadScript(src) up to its return: resolved at once on an existing script
\* element, else a new element is appended and the promise waits for it
loadScript(P, src) ==
  IF P.scriptEls[src] > 0 THEN [page |-> P, existing |-> TRUE]
  ELSE [page |-> [P EXCEPT !.scriptEls[src] = @ + 1,
                           !.scriptState[src] = "loading"],
        existing |-> FALSE]

\* where the chain stands once loadScript has resolved: v8 goes through
\* waitForLottie, which resolves at once if window.lottie is there
afterScript(v, lot) ==
  IF v = "v8" /\ ~lot THEN "wait" ELSE "fetch"

\* loadLottieIntoContainer past its two early returns
body(P, c, v, lot, who) ==
  LET P1 == [P EXCEPT !.ctr[c].lottieLoaded = TRUE,
                      !.ctr[c].status = "loading",
                      !.ctr[c].inners = @ + 1,
                      !.ctr[c].runs = @ + 1,
                      !.ctr[c].starter = who]
  IN IF lot THEN [P1 EXCEPT !.ctr[c].pc = "fetch"]
     ELSE LET s == loadScript(P1, LOTTIE_WEB_SCRIPT(v))
          IN [s.page EXCEPT !.ctr[c].pc =
                IF s.existing THEN afterScript(v, lot) ELSE "script"]

\* without the lottieLoaded check
loadLottieIntoContainerNoGuard(P, c, v, lot, who) == body(P, c, v, lot, who)

\* loadLottieIntoContainer(container); decorate gives every container a
\* data-jsonsrc, so the first early return is never taken
loadLottieIntoContainer(P, c, v, lot, who) ==
  IF P.ctr[c].lottieLoaded THEN P ELSE body(P, c, v, lot, who)

\* const run = () => { if (loaded) return; loaded = true; ... }
run(P, c, v, lot, who) ==
  IF P.ctr[c].loaded THEN P
  ELSE loadLottieIntoContainer([P EXCEPT !.ctr[c].loaded = TRUE], c, v, lot, who)

RECURSIVE forEachEntry(_, _, _, _, _)
\* entries.forEach((entry) => { if (entry.isIntersecting) run(); }) with n
\* intersecting entries
forEachEntry(n, P, c, v, lot) ==
  IF n = 0 THEN P
  ELSE forEachEntry(n - 1, run(P, c, v, lot, "observer"), c, v, lot)

\* the timer fires and does nothing
onTimeoutIdle(P, c, v, lot) == [P EXCEPT !.ctr[c].timer = "fired"]

\* setTimeout(() => { if (container.dataset.lottieLoaded !== 'true') run(); }, 500)
onTimeout(P, c, v, lot) ==
  LET P1 == [P EXCEPT !.ctr[c].timer = "fired"]
  IN IF ~P.ctr[c].lottieLoaded THEN run(P1, c, v, lot, "timer") ELSE P1

\* the error also clears lottieLoaded
showErrorAllowRetry(ct, why) ==
  [ct EXCEPT !.pc = "failed", !.status = "error", !.inners = 0, !.msg = TRUE,
             !.cause = why, !.lottieLoaded = FALSE]

\* showError: status, innerHTML cleared, p.lottie-error appended
showError(ct, why) ==
  [ct EXCEPT !.pc = "failed", !.status = "error", !.inners = 0, !.msg = TRUE,
             !.cause = why]

SetPage(P) ==
  /\ ctr' = P.ctr
  /\ scriptEls' = P.scriptEls
  /\ scriptState' = P.scriptState

\* decorate has run for every container of the page
InitPage ==
  /\ variant \in Variants
  /\ ctr \in [Containers -> {Fresh(lazy) : lazy \in BOOLEAN}]
  /\ scriptEls = [src \in Srcs |-> 0]
  /\ scriptState = [src \in Srcs |-> "none"]
  /\ delayed \in (IF variant = "v8" THEN {"pending", "none"} ELSE {"none"})
  /\ lottie = FALSE
  /\ pc = "page"
  /\ fetched = <<>>
  /\ results = <<>>
  /\ data = <<>>
  /\ status = "none"
  /\ trace = <<>>
  /\ StripOff

\* the IntersectionObserver callback of a lazy container, any number of times
ObserverCallback(c) ==
  /\ pc = "page"
  /\ ctr[c].lazy
  /\ \E n \in 0..MaxEntries : SetPage(forEachEntry(n, Page, c, variant, lottie))
  /\ UNCHANGED <<loadVars, stripVars, delayed>>

\* the 500 ms timer of a lazy container
FallbackTimer(c) ==
  /\ pc = "page"
  /\ ctr[c].timer = "armed"
  /\ SetPage(onTimeout(Page, c, variant, lottie))
  /\ UNCHANGED <<loadVars, stripVars, delayed>>

\* loadLottieIntoContainer(container) called directly, as decorate does on
\* an immediate container, once or again
DirectCall(c) ==
  /\ pc = "page"
  /\ ~ctr[c].lazy
  /\ SetPage(loadLottieIntoContainer(Page, c, variant, lottie, "direct"))
  /\ UNCHANGED <<loadVars, stripVars, delayed>>

\* the loader at the end of the v8 file, run while the page has a container
DelayedLoader ==
  /\ pc = "page"
  /\ delayed = "pending"
  /\ delayed' = "ran"
  /\ SetPage(loadScript(Page, DELAYED_SCRIPT).page)
  /\ UNCHANGED <<loadVars, stripVars>>

\* script.onload: lottie-web has defined window.lottie; the chain that
\* appended the element goes on (in v8 through waitForLottie, now immediate)
ScriptOnLoad(src) ==
  /\ pc = "page"
  /\ scriptState[src] = "loading"
  /\ scriptState' = [scriptState EXCEPT ![src] = "loaded"]
  /\ lottie' = TRUE
  /\ ctr' = [c \in Containers |->
               IF ctr[c].pc = "script" /\ LOTTIE_WEB_SCRIPT(variant) = src
               THEN [ctr[c] EXCEPT !.pc = "fetch"]
               ELSE ctr[c]]
  /\ UNCHANGED <<fetched, results, variant, pc, data, status, trace>>
  /\ UNCHANGED <<stripVars, scriptEls, delayed>>

\* script.onerror: the chain that appended the element is rejected
ScriptOnError(src) ==
  /\ pc = "page"
  /\ scriptState[src] = "loading"
  /\ scriptState' = [scriptState EXCEPT ![src] = "failed"]
  /\ ctr' = [c \in Containers |->
               IF ctr[c].pc = "script" /\ LOTTIE_WEB_SCRIPT(variant) = src
               THEN showError(ctr[c], "script")
               ELSE ctr[c]]
  /\ UNCHANGED <<loadVars, stripVars, scriptEls, delayed>>

\* waitForLottie: a check finds window.lottie
WaitForLottieResolves(c) ==
  /\ pc = "page"
  /\ ctr[c].pc = "wait"
  /\ lottie
  /\ ctr' = [ctr EXCEPT ![c].pc = "fetch"]
  /\ UNCHANGED <<loadVars, stripVars, scriptEls, scriptState, delayed>>

\* waitForLottie: a check after the deadline still finds no window.lottie
WaitForLottieRejects(c) ==
  /\ pc = "page"
  /\ ctr[c].pc = "wait"
  /\ ~lottie
  /\ ctr' = [ctr EXCEPT ![c] = showError(@, "unavailable")]
  /\ UNCHANGED <<loadVars, stripVars, scriptEls, scriptState, delayed>>

\* fetch(absoluteUrl) settles: ok, not ok, or rejected
FetchSettles(c) ==
  /\ pc = "page"
  /\ ctr[c].pc = "fetch"
  /\ \E ok \in BOOLEAN :
       ctr' = [ctr EXCEPT ![c] = IF ok THEN [@ EXCEPT !.pc = "json"]
                                 ELSE showError(@, "fetch")]
  /\ UNCHANGED <<loadVars, stripVars, scriptEls, scriptState, delayed>>

\* res.json() settles and, if it decoded, the .then callback runs: the
\* transform, the check of window.lottie, the first requestAnimationFrame
AnimationDataArrives(c) ==
  /\ pc = "page"
  /\ ctr[c].pc = "json"
  /\ \E decoded \in BOOLEAN, d \in PageDocs :
       ctr' = [ctr EXCEPT ![c] =
                 IF ~decoded THEN showError(@, "json")
                 ELSE IF transform(variant, d).threw THEN showError(@, "transform")
                 ELSE IF ~lottie THEN showError(@, "unavailable")
                 ELSE [@ EXCEPT !.pc = "raf1"]]
  /\ UNCHANGED <<loadVars, stripVars, scriptEls, scriptState, delayed>>

\* the outer requestAnimationFrame callback
FirstFrame(c) ==
  /\ pc = "page"
  /\ ctr[c].pc = "raf1"
  /\ ctr' = [ctr EXCEPT ![c].pc = "raf2"]
  /\ UNCHANGED <<loadVars, stripVars, scriptEls, scriptState, delayed>>

\* runInit in the inner requestAnimationFrame callback, outside the promise
\* chain: lottie.loadAnimation returns, or throws and nothing catches it
DeferredRunInit(c) ==
  /\ pc = "page"
  /\ ctr[c].pc = "raf2"
  /\ \E throws \in BOOLEAN :
       ctr' = [ctr EXCEPT ![c] =
                 IF throws
                 THEN [@ EXCEPT !.pc = "uncaught", !.anims = @ + 1,
                                !.cause = "loadAnimation"]
                 ELSE [@ EXCEPT !.pc = "done", !.anims = @ + 1,
                                !.status = "loaded"]]
  /\ UNCHANGED <<loadVars, stripVars, scriptEls, scriptState, delayed>>

NextPage ==
  \/ \E c \in Containers : ObserverCallback(c)
  \/ \E c \in Containers : FallbackTimer(c)
  \/ \E c \in Containers : DirectCall(c)
  \/ DelayedLoader
  \/ \E src \in Srcs : ScriptOnLoad(src)
  \/ \E src \in Srcs : ScriptOnError(src)
  \/ \E c \in Containers : WaitForLottieResolves(c)
  \/ \E c \in Containers : WaitForLottieRejects(c)
  \/ \E c \in Containers : FetchSettles(c)
  \/ \E c \in Containers : AnimationDataArrives(c)
  \/ \E c \in Containers : FirstFrame(c)
  \/ \E c \in Containers : DeferredRunInit(c)

SpecPage == InitPage /\ [][NextPage]_vars

\* a timer that has been set fires
SpecPageFair ==
  SpecPage /\ \A c \in Containers : WF_vars(FallbackTimer(c))

-----------------------------------------------------------------------------
(* The keyframes of one layer as objects with identity.  The store (heap)
   is the sequence of objects allocated so far, an object's place in it is
   its identity.  A keyframe object is [t, v, n] with v the identity of the
   nested object that holds its value or easing data (0: only primitive
   fields); a nested object holds the number n. *)

\* JSON.stringify(kf): the text carries the values, no identities
stringifyObject(hp, id) ==
  [t |-> hp[id].t,
   nested |-> hp[id].v # 0,
   n |-> IF hp[id].v # 0 THEN hp[hp[id].v].n ELSE 0]

\* JSON.parse(text): every object of the text is allocated anew
parseObject(hp, txt) ==
  LET hp1 == IF txt.nested THEN Append(hp, [t |-> 0, v |-> 0, n |-> txt.n])
             ELSE hp
      top == [t |-> txt.t, v |-> IF txt.nested THEN Len(hp1) ELSE 0, n |-> 0]
  IN [heap |-> Append(hp1, top), id |-> Len(hp1) + 1]

\* { ...kf }: a new keyframe object with the fields of the old one
copyObjectShallow(hp, id) == [heap |-> Append(hp, hp[id]), id |-> Len(hp) + 1]

\* JSON.parse(JSON.stringify(kf))
copyObject(hp, id) == parseObject(hp, stringifyObject(hp, id))

\* const copy = JSON.parse(JSON.stringify(kf)); copy.t = kf.t + off
copyKfObject(hp, id, o) ==
  LET r == copyObject(hp, id)
  IN [heap |-> [r.heap EXCEPT ![r.id].t = hp[id].t + o], id |-> r.id]

RECURSIVE pushCopies(_, _, _, _, _, _, _)
\* the two loops from cycle c, keyframe i on, with expanded = acc
pushCopies(hp, ids, cd, cyc, c, i, acc) ==
  IF c >= cyc THEN [heap |-> hp, ids |-> acc]
  ELSE IF i > Len(ids) THEN pushCopies(hp, ids, cd, cyc, c + 1, 1, acc)
  ELSE LET r == copyKfObject(hp, ids[i], off(c, cd))
       IN pushCopies(r.heap, ids, cd, cyc, c, i + 1, Append(acc, r.id))

\* the layer of these keyframe objects as expandTmCycles reads it
layerOf(hp, l) ==
  Layer(l.ip, l.op,
        Tm(XString(XCycle), Arr([i \in 1..Len(l.k) |-> Kf(hp[l.k[i]].t, 0)])))

\* expanded, as objects: the store after the loops and the new tm.k
expandedObjects(hp, l) ==
  pushCopies(hp, l.k, cycleDur(layerOf(hp, l).tm.k), cycles(layerOf(hp, l)),
             0, 1, <<>>)

RECURSIVE parseKeyframes(_, _, _)
\* res.json() on the keyframes of the fetched text, one after the other
parseKeyframes(hp, txts, ids) ==
  IF txts = <<>> THEN [heap |-> hp, ids |-> ids]
  ELSE LET r == parseObject(hp, Head(txts))
       IN parseKeyframes(r.heap, Tail(txts), Append(ids, r.id))

\* fetched keyframe lists: 2..MaxKf keyframes one cycle step apart, each
\* with or without a nested object
KeyframeTexts ==
  UNION {{[i \in 1..n |-> [t |-> 25 * (i - 1), nested |-> nd[i], n |-> i]] :
            nd \in [1..n -> BOOLEAN]} : n \in 2..MaxKf}

\* out-points of the layer that give two and more cycles
CopyOps == {Num(25), Num(50)}

\* the numbers written into a nested object afterwards
WriteVals == {7, 8}

\* res.json() has returned the keyframes of a layer that expandTmCycles
\* will expand
InitCopy ==
  /\ \E txts \in KeyframeTexts, op \in CopyOps :
       LET r == parseKeyframes(<<>>, txts, <<>>)
       IN /\ heap = r.heap
          /\ fetched = [ip |-> Num(0), op |-> op, k |-> r.ids]
          /\ data = r.ids
  /\ results = <<>>
  /\ trace = <<>>
  /\ pc = "keyframes"
  /\ variant = "none"
  /\ lottie = FALSE
  /\ status = "none"
  /\ seen = {}
  /\ stack = <<>>
  /\ calls = 0
  /\ descents = <<>>
  /\ PageOff

\* the loops of expandTmCycles and tm.k = expanded
ExpandKeyframes ==
  /\ pc = "keyframes"
  /\ LET r == expandedObjects(heap, fetched)
     IN /\ heap' = r.heap
        /\ data' = r.ids
        /\ results' = <<r.heap>>
  /\ pc' = "expanded"
  /\ UNCHANGED <<fetched, variant, lottie, status, trace>>
  /\ UNCHANGED <<seen, stack, calls, descents, pageVars>>

\* later code writes a nested field of an entry j of the new tm.k
WriteNested ==
  /\ pc = "expanded"
  /\ Len(trace) < MaxWrites
  /\ \E j \in 1..Len(data), val \in WriteVals :
       /\ heap[data[j]].v # 0
       /\ heap' = [heap EXCEPT ![heap[data[j]].v].n = val]
       /\ trace' = Append(trace, j)
  /\ UNCHANGED <<fetched, results, variant, pc, data, lottie, status>>
  /\ UNCHANGED <<seen, stack, calls, descents, pageVars>>

NextCopy == ExpandKeyframes \/ WriteNested

SpecCopy == InitCopy /\ [][NextCopy]_vars

-----------------------------------------------------------------------------
(* What the properties speak about *)

\* the places of a document where a layer sits: <<0, i>> is layers[i],
\* <<a, i>> is assets[a].layers[i]
Slots(d) ==
  {<<0, i>> : i \in (IF d.layers.isArray THEN 1..Len(d.layers.items) ELSE {})}
  \cup
  UNION {IF ~d.assets.items[a].null /\ d.assets.items[a].layers.isArray
         THEN {<<a, i>> : i \in 1..Len(d.assets.items[a].layers.items)}
         ELSE {} :
         a \in (IF d.assets.isArray THEN 1..Len(d.assets.items) ELSE {})}

At(d, slot) ==
  IF slot[1] = 0 THEN d.layers.items[slot[2]]
  ELSE d.assets.items[slot[1]].layers.items[slot[2]]

\* the document after the first call
After == results[1].data

Called == Len(results) >= 1

\* tm.x is a string that contains the loop marker
Marked(l) ==
  ~l.null /\ l.tm.present /\ l.tm.x.type = "string" /\ Includes(l.tm.x.s, Marker)

KList(l) == l.tm.k.items

\* k[last].t - k[0].t of a layer with at least one keyframe
Span(l) == KList(l)[Len(KList(l))].t - KList(l)[1].t

\* a layer the expander is to expand: marker, n >= 2 keyframes, cycleDur > 0
Valid(l) ==
  /\ Marked(l)
  /\ l.tm.k.isArray
  /\ Len(KList(l)) >= 2
  /\ \A i \in 1..Len(KList(l)) : ~KList(l)[i].null
  /\ Span(l) > 0

\* op, or 900 if op is absent or falsy
OutPoint(l) == IF l.op.has /\ l.op.n # 0 THEN l.op.n ELSE 900

\* ip, or 0 if ip is absent or falsy
InPoint(l) == IF l.ip.has THEN l.ip.n ELSE 0

\* ceil(dur / cycleDur) + 1
WantCycles(l) == MathCeil(OutPoint(l) - InPoint(l), Span(l)) + 1

Sorted(q) == \A i \in 1..(Len(q) - 1) : q[i].t <= q[i + 1].t

Times(q) == [i \in 1..Len(q) |-> q[i].t]

\* the document that holds only the layer l, at top level
Alone(l) == Doc(Arr(<<l>>), NotArray)

\* what expandTmCycles makes of l in the document that holds only l
ExpandedAlone(l) == expandTmCycles(Alone(l)).data.layers.items[1]

-----------------------------------------------------------------------------
(* C1 *)

-----------------------------------------------------------------------------
(* C2 *)

\* C2: in every expanded layer, entry c*n + i is the original k[i] with t
\* raised by c * cycleDur and all else equal; the spec's example document
\* gets the times 0,25,25,50,50,75,75,100,100,125
C2_Copies ==
  Called =>
    /\ \A slot \in Slots(fetched) :
         LET l == At(fetched, slot)
             n == Len(KList(l))
         IN Valid(l) =>
              \A c \in 0..(WantCycles(l) - 1) : \A i \in 1..n :
                /\ c * n + i <= Len(KList(At(After, slot)))
                /\ KList(At(After, slot))[c * n + i] =
                     [KList(l)[i] EXCEPT !.t = KList(l)[i].t + c * Span(l)]
    /\ fetched = Alone(LoopA) =>
         Times(KList(At(After, <<0, 1>>))) =
           <<0, 25, 25, 50, 50, 75, 75, 100, 100, 125>>

C2_Witness ==
  /\ Called
  /\ fetched = Alone(LoopA)
  /\ Len(KList(At(After, <<0, 1>>))) = 10
  /\ KList(At(After, <<0, 1>>))[10] = Kf(125, 1)

-----------------------------------------------------------------------------
(* C3 *)

\* C3 as stated: the expanded tm.k is non-decreasing in t whatever the t of
\* the keyframes between the first and the last
C3_AsStated ==
  Called =>
    \A slot \in Slots(fetched) :
      Valid(At(fetched, slot)) => Sorted(KList(At(After, slot)))

\* C3 amended: the expanded tm.k is non-decreasing in t when the original
\* keyframes are non-decreasing in t
C3_SortedIfSorted ==
  Called =>
    \A slot \in Slots(fetched) :
      LET l == At(fetched, slot) IN
      Valid(l) /\ Sorted(KList(l)) => Sorted(KList(At(After, slot)))

C3_Witness ==
  /\ Called
  /\ \E slot \in Slots(fetched) :
       LET l == At(fetched, slot) IN
       /\ Valid(l)
       /\ Times(KList(l)) = <<0, 25, 50>>
       /\ Len(KList(At(After, slot))) >= 6
       /\ Sorted(KList(At(After, slot)))

-----------------------------------------------------------------------------
(* C4 *)

\* C4 as stated: the expanded keyframes start at the original k[0].t and
\* reach the layer's out-point, for every ip and every k[0].t
C4_Coverage ==
  Called =>
    \A slot \in Slots(fetched) :
      LET l == At(fetched, slot)
          q == KList(At(After, slot))
      IN Valid(l) =>
           /\ q # <<>>
           /\ q[1].t = KList(l)[1].t
           /\ q[Len(q)].t >= OutPoint(l)

-----------------------------------------------------------------------------
(* C5 *)

\* C5: a layer with the marker whose tm.k is no array of at least 2
\* keyframes, or whose cycleDur is <= 0, is left as it was
C5_SkippedUnchanged ==
  Called =>
    \A slot \in Slots(fetched) :
      LET l == At(fetched, slot) IN
      (/\ Marked(l)
       /\ \/ ~l.tm.k.isArray
          \/ Len(KList(l)) < 2
          \/ Span(l) <= 0)
      => At(After, slot) = l

C5_Witness ==
  /\ Called
  /\ \E slot \in Slots(fetched) :
       LET l == At(fetched, slot) IN
       /\ Marked(l)
       /\ l.tm.k.isArray
       /\ Len(KList(l)) >= 2
       /\ Span(l) < 0
       /\ At(After, slot).tm.x = XString(XCycle)
       /\ At(After, slot).tm.k = l.tm.k

-----------------------------------------------------------------------------
(* C6 *)

\* a layer with no tm, a tm without x, or an x without the marker
Unmarked(l) == ~l.null /\ ~Marked(l)

-----------------------------------------------------------------------------
(* C7 *)

\* C7: a further call of expandTmCycles on a document it has processed
\* leaves the document as the call before left it
C7_SecondCallNoChange ==
  \A p \in 2..Len(results) : results[p].data = results[p - 1].data

C7_Witness ==
  /\ Len(results) >= 2
  /\ results[1].data # fetched
  /\ results[2].data = results[1].data

-----------------------------------------------------------------------------
(* C8 *)

\* C8: a layer in assets[a].layers comes out as it would at top level,
\* in every asset
C8_AssetsAsTopLevel ==
  Called =>
    \A slot \in Slots(fetched) :
      slot[1] # 0 => At(After, slot) = ExpandedAlone(At(fetched, slot))

C8_Witness ==
  /\ Called
  /\ fetched.layers.items = <<>>
  /\ Len(fetched.assets.items) = MaxAssets
  /\ \A a \in 1..MaxAssets :
       /\ fetched.assets.items[a].layers.isArray
       /\ Valid(At(fetched, <<a, 1>>))
       /\ At(After, <<a, 1>>).tm.x = XUndefined
       /\ Len(KList(At(After, <<a, 1>>))) > Len(KList(At(fetched, <<a, 1>>)))

-----------------------------------------------------------------------------
(* C9 *)

\* C9 as stated: no call of expandTmCycles ends in an exception, whatever
\* the shape of the document
C9_NeverThrows == \A p \in 1..Len(results) : ~results[p].threw

-----------------------------------------------------------------------------
(* C10 *)

\* a layer that one of the three guards skips
Skipped(l) ==
  \/ ~Marked(l)
  \/ ~l.tm.k.isArray
  \/ Len(KList(l)) < 2
  \/ Span(l) <= 0

\* C10: next to layers that a guard skips, wherever they sit, every valid
\* layer comes out as it does in the document that holds only that layer
C10_PerLayerSkip ==
  (/\ Called
   /\ \E bad \in Slots(fetched) : Skipped(At(fetched, bad)))
  => \A slot \in Slots(fetched) :
       Valid(At(fetched, slot)) =>
         At(After, slot) = ExpandedAlone(At(fetched, slot))

C10_Witness ==
  /\ Called
  /\ Len(fetched.layers.items) >= 2
  /\ Skipped(At(fetched, <<0, 1>>))
  /\ Valid(At(fetched, <<0, 2>>))
  /\ At(After, <<0, 2>>).tm.x = XUndefined
  /\ At(After, <<0, 2>>) # At(fetched, <<0, 2>>)
  /\ fetched.assets.isArray
  /\ \E a \in 1..Len(fetched.assets.items) :
       /\ fetched.assets.items[a].layers.isArray
       /\ Valid(At(fetched, <<a, 1>>))
       /\ At(After, <<a, 1>>) # At(fetched, <<a, 1>>)

-----------------------------------------------------------------------------
(* C11 *)

RECURSIVE ReachFrom(_, _)
\* the objects reachable from those of S through fields and array items
ReachFrom(h, S) ==
  LET more == S \cup {k \in Objs : \E o \in S :
                         \/ \E i \in 1..Len(h[o].kids) : h[o].kids[i] = k
                         \/ h[o].x = "object" /\ h[o].xref = k}
  IN IF more = S THEN S ELSE ReachFrom(h, more)

\* the outermost call of stripRemainingExpressions has returned
StripDone == pc = "strip" /\ stack = <<>> /\ calls > 0

\* C11: when stripRemainingExpressions has returned, no non-array object
\* reachable from the document has a string x
C11_NoStringX ==
  StripDone =>
    \A o \in ReachFrom(heap, {1}) : ~heap[o].isArray => heap[o].x # "string"

\* a string x below an array, in an object that two paths reach, is gone
C11_Witness ==
  /\ StripDone
  /\ fetched[1].isArray
  /\ fetched[1].kids = <<MaxObj, 2>>
  /\ fetched[MaxObj].x = "string"
  /\ heap[MaxObj].x = "none"

-----------------------------------------------------------------------------
(* C12 *)

\* the invocations one descent into o makes
Fanout(h, o) ==
  Len(h[o].kids) + (IF h[o].x \in {"other", "object"} THEN 1 ELSE 0)

RECURSIVE SumFanout(_, _)
SumFanout(h, S) ==
  IF S = {} THEN 0
  ELSE LET o == CHOOSE a \in S : TRUE
       IN Fanout(h, o) + SumFanout(h, S \ {o})

\* C12: the walk ends: it makes no more invocations than the document plus
\* one per reference of the graph, descends into each object at most once,
\* and an object that has been seen has no string x, however often reached
C12_Terminates ==
  pc = "strip" =>
    /\ calls + Len(stack) <= 1 + SumFanout(fetched, Objs)
    /\ \A o \in Objs : descents[o] <= 1
    /\ \A o \in seen : heap[o].x # "string"

\* a graph with a cycle back to the document: walked to the end, the
\* document reached twice and descended into once
C12_Witness ==
  /\ StripDone
  /\ \E i \in 1..Len(fetched[MaxObj].kids) : fetched[MaxObj].kids[i] = 1
  /\ fetched[1].x = "string"
  /\ calls = MaxObj + 1
  /\ \A o \in Objs : descents[o] = 1

-----------------------------------------------------------------------------
(* C13 *)

\* C13: in both variants the document handed to lottie.loadAnimation has no
\* layer, expanded or skipped, whose tm.x is a string with the loop marker
C13_NoLiveLoop ==
  pc = "handed" => \A slot \in Slots(data) : ~Marked(At(data, slot))

-----------------------------------------------------------------------------
(* C19 *)

IsPrefix(p, q) == Len(p) <= Len(q) /\ \A i \in 1..Len(p) : p[i] = q[i]

V8Order == <<"expandTmCycles", "stripRemainingExpressions", "loadAnimation">>

\* C19: the v8 handler calls expandTmCycles, then stripRemainingExpressions,
\* then lottie.loadAnimation, each once and nothing else; the document handed
\* over is the fetched one expanded and then stripped
C19_Order ==
  (variant = "v8" /\ pc \in {"json", "raf1", "raf2", "handed", "failed"}) =>
    /\ IsPrefix(trace, V8Order)
    /\ pc = "handed" =>
         /\ trace = V8Order
         /\ data = stripRemainingExpressions(expandTmCycles(fetched).data)

\* a document with a loop to expand and an expression only the strip removes
C19_Witness ==
  /\ variant = "v8"
  /\ pc = "handed"
  /\ trace = V8Order
  /\ \E s1, s2 \in Slots(fetched) :
       /\ Valid(At(fetched, s1))
       /\ Len(KList(At(data, s1))) > Len(KList(At(fetched, s1)))
       /\ Marked(At(fetched, s2))
       /\ ~Valid(At(fetched, s2))
       /\ At(data, s2).tm.x = XUndefined

-----------------------------------------------------------------------------
(* C20 *)

\* tm.x is the cyclic loop-out expression
CyclicLoop(l) ==
  ~l.null /\ l.tm.present /\ l.tm.x.type = "string" /\ Includes(l.tm.x.s, XCycle)

\* C20: a layer whose tm.x is not the cyclic loop-out expression (another
\* loopOut mode, another expression) keeps its tm.k and its tm.x
C20_OnlyCycleExpanded ==
  Called =>
    \A slot \in Slots(fetched) :
      ~CyclicLoop(At(fetched, slot)) => At(After, slot) = At(fetched, slot)

-----------------------------------------------------------------------------
(* C14 *)

\* C14: for every container the body of loadLottieIntoContainer has run at
\* most once, the container holds at most one inner element and at most one
\* lottie.loadAnimation call has been made for it
C14_BodyAtMostOnce ==
  pc = "page" =>
    \A c \in Containers :
      ctr[c].runs <= 1 /\ ctr[c].inners <= 1 /\ ctr[c].anims <= 1

\* the observer started the load, the timer fired later, the animation plays
C14_Witness ==
  /\ pc = "page"
  /\ \E c \in Containers :
       /\ ctr[c].starter = "observer"
       /\ ctr[c].timer = "fired"
       /\ ctr[c].pc = "done"
       /\ ctr[c].runs = 1
       /\ ctr[c].inners = 1
       /\ ctr[c].anims = 1

-----------------------------------------------------------------------------
(* C15 *)

\* C15: every lazy container eventually has lottieLoaded set, whether or not
\* the observer ever reports an intersection; a run() that the observer (or
\* the timer) made has started the load; and a timer that fires on a
\* container already loading changes nothing but itself
C15_EventuallyTriggered ==
  /\ \A c \in Containers : <>(ctr[c].lazy => ctr[c].lottieLoaded)
  /\ [](\A c \in Containers : ctr[c].loaded => ctr[c].lottieLoaded)
  /\ [][\A c \in Containers :
          (ctr[c].lottieLoaded /\ ctr[c].timer = "armed" /\ ctr'[c].timer = "fired")
            => ctr'[c] = [ctr[c] EXCEPT !.timer = "fired"]]_vars

\* the timer started the load of a container whose observer had reported
\* nothing
C15_Witness ==
  /\ pc = "page"
  /\ \E c \in Containers :
       /\ ctr[c].lazy
       /\ ctr[c].starter = "timer"
       /\ ctr[c].lottieLoaded
       /\ ctr[c].status = "loading"

-----------------------------------------------------------------------------
(* C16 *)

\* C16: the page never holds two script elements with the same src
C16_OneScriptPerSrc ==
  pc = "page" => \A src \in Srcs : scriptEls[src] <= 1

\* the delayed loader and every container have asked for the script while it
\* was still loading: one element
C16_Witness ==
  /\ pc = "page"
  /\ delayed = "ran"
  /\ \A c \in Containers : ctr[c].runs = 1 /\ ctr[c].pc \in {"script", "wait"}
  /\ scriptEls[DELAYED_SCRIPT] = 1
  /\ scriptState[DELAYED_SCRIPT] = "loading"

-----------------------------------------------------------------------------
(* C17 *)

\* C17: a container whose load has failed, at whatever step, has
\* lottieStatus = 'error' and shows the lottie-error message
C17_FailureShowsError ==
  pc = "page" =>
    \A c \in Containers :
      ctr[c].cause # "none" => (ctr[c].status = "error" /\ ctr[c].msg)

-----------------------------------------------------------------------------
(* C18 *)

\* C18: no container fails for want of window.lottie unless the script
\* itself failed to load
C18_LibraryAvailable ==
  pc = "page" =>
    \A c \in Containers :
      ctr[c].cause = "unavailable" =>
        scriptState[LOTTIE_WEB_SCRIPT(variant)] = "failed"

-----------------------------------------------------------------------------
(* C22 *)

\* C22: a layer that passes the guards (marker, n >= 2 keyframes,
\* cycleDur > 0) has, after expandTmCycles, a tm.k of at least n entries,
\* whatever its ip and op
C22_NoKeyframesLost ==
  Called =>
    \A slot \in Slots(fetched) :
      Valid(At(fetched, slot)) =>
        Len(KList(At(After, slot))) >= Len(KList(At(fetched, slot)))

-----------------------------------------------------------------------------
(* C23 *)

\* C23: stripRemainingExpressions leaves the graph as it was but for string
\* x fields of non-array objects, which it deletes: the same objects, every
\* array and every other field with the same values in the same order, every
\* x that is no string (a number, an object) still there
C23_OnlyStringXDeleted ==
  pc = "strip" =>
    /\ DOMAIN heap = DOMAIN fetched
    /\ \A o \in Objs :
         /\ heap[o].isArray = fetched[o].isArray
         /\ heap[o].kids = fetched[o].kids
         /\ heap[o].xref = fetched[o].xref
         /\ \/ heap[o].x = fetched[o].x
            \/ /\ fetched[o].x = "string"
               /\ ~fetched[o].isArray
               /\ heap[o].x = "none"

\* a split position: the document's x holds an object, which is kept, and
\* that object's own string x is deleted; a numeric x further down is kept
C23_Witness ==
  /\ StripDone
  /\ fetched[1].x = "object"
  /\ heap[1].x = "object"
  /\ fetched[2].x = "string"
  /\ heap[2].x = "none"
  /\ fetched[MaxObj].x = "other"
  /\ heap[MaxObj].x = "other"

-----------------------------------------------------------------------------
(* C24 *)

\* the changes of dataset.lottieStatus the claim allows
StatusSteps ==
  {<<"none", "loading">>, <<"loading", "loaded">>, <<"loading", "error">>}

\* C24: lottieStatus is 'loaded' only once lottie.loadAnimation has been
\* called for the container; it goes from loading to loaded or from loading
\* to error and in no other way, so an error never becomes loaded; and
\* lottieLoaded, once 'true', stays 'true'
C24_StatusTransitions ==
  /\ [](pc = "page" =>
          \A c \in Containers : ctr[c].status = "loaded" => ctr[c].anims >= 1)
  /\ [][pc = "page" =>
          \A c \in Containers :
            /\ ctr[c].status # ctr'[c].status
                 => <<ctr[c].status, ctr'[c].status>> \in StatusSteps
            /\ ctr[c].status = "error" => ctr'[c].status # "loaded"
            /\ ctr[c].lottieLoaded => ctr'[c].lottieLoaded]_vars

\* one container failed and, its timer having fired, was not started again;
\* another plays after its one loadAnimation call
C24_Witness ==
  /\ pc = "page"
  /\ \E c1, c2 \in Containers :
       /\ ctr[c1].status = "error"
       /\ ctr[c1].lottieLoaded
       /\ ctr[c1].timer = "fired"
       /\ ctr[c1].runs = 1
       /\ ctr[c2].status = "loaded"
       /\ ctr[c2].anims = 1

-----------------------------------------------------------------------------
(* C21 *)

\* the identities a keyframe object is made of
Parts(hp, id) == {id} \cup (IF hp[id].v # 0 THEN {hp[id].v} ELSE {})

\* what a keyframe object reads as, nested object included
Reads(hp, id) ==
  <<hp[id].t, hp[id].v # 0, IF hp[id].v # 0 THEN hp[hp[id].v].n ELSE 0>>

Written == {trace[i] : i \in 1..Len(trace)}

\* C21: after expandTmCycles the entries of the new tm.k are distinct
\* objects that share no object with one another or with an original
\* keyframe, and a write to a nested field of some entries leaves every
\* other entry and every original keyframe reading as before
C21_NoAliasing ==
  pc = "expanded" =>
    /\ \A i, j \in 1..Len(data) :
         i # j => Parts(heap, data[i]) \cap Parts(heap, data[j]) = {}
    /\ \A i \in 1..Len(data) : \A k \in 1..Len(fetched.k) :
         Parts(heap, data[i]) \cap Parts(heap, fetched.k[k]) = {}
    /\ \A i \in 1..Len(data) :
         i \notin Written => Reads(heap, data[i]) = Reads(results[1], data[i])
    /\ \A k \in 1..Len(fetched.k) :
         Reads(heap, fetched.k[k]) = Reads(results[1], fetched.k[k])

\* the copy of the first keyframe in the first cycle was written; its copy
\* in the second cycle and the original still hold the old number
C21_Witness ==
  /\ pc = "expanded"
  /\ trace = <<1>>
  /\ Len(data) >= 2 * Len(fetched.k)
  /\ heap[heap[data[1]].v].n = 7
  /\ heap[heap[data[1 + Len(fetched.k)]].v].n = 1
  /\ heap[heap[fetched.k[1]].v].n = 1

=============================================================================
